---- MODULE Spec2Model ----
(***************************************************************************)
(* The Grover search simulator of src/models/quantum_algorithms.py: the    *)
(* class Grover (a state vector of 2^n complex amplitudes, the oracle and   *)
(* diffuser steps, run_algorithm and get_probabilities) and the function    *)
(* example_oracle_factory, together with a caller that builds one oracle    *)
(* and one simulator and then calls its methods in any order.               *)
(*                                                                         *)
(* Numbers.  Every amplitude the program can hold is a dyadic rational      *)
(* multiple of 1/sqrt(N), N = num_states: the initial amplitude is          *)
(* 1/sqrt(N), the oracle negates, and the diffuser takes a mean over        *)
(* N = 2^n entries.  A state vector is therefore the record                 *)
(*     [amp |-> [0..N-1 -> [re, im]], exp |-> e]                            *)
(* whose entry i stands for (amp[i].re + j*amp[i].im) / 2^e / sqrt(N), and  *)
(* a probability array is [num |-> [0..N-1 -> integer], exp |-> e] whose    *)
(* entry i stands for num[i] / 2^e.  The arithmetic is exact, where         *)
(* numpy's is IEEE double.  The integers outgrow the model checker's        *)
(* machine integers, so they are kept as sign and magnitude, the magnitude  *)
(* a sequence of base-10^4 digits, least significant first (<<>> is 0).     *)
(***************************************************************************)
EXTENDS Integers, Sequences, FiniteSets, TLC

(* Bounds of the model. *)
MaxQubits == 5
MaxLambdaQubits == 2
MaxIter == 6
MaxRerunPairs == 2

-----------------------------------------------------------------------------
(* Exact integer arithmetic. *)

Base == 10 ^ 4

RECURSIVE MagTrim(_)
MagTrim(m) ==
    IF m = <<>> THEN m
    ELSE IF m[Len(m)] = 0 THEN MagTrim(SubSeq(m, 1, Len(m) - 1))
    ELSE m

RECURSIVE MagFromNat(_)
MagFromNat(k) ==
    IF k = 0 THEN <<>> ELSE <<k % Base>> \o MagFromNat(k \div Base)

Limb(m, j) == IF j <= Len(m) THEN m[j] ELSE 0

RECURSIVE MagAddFrom(_, _, _, _)
MagAddFrom(a, b, j, carry) ==
    IF j > Len(a) /\ j > Len(b)
    THEN (IF carry = 0 THEN <<>> ELSE <<carry>>)
    ELSE LET s == Limb(a, j) + Limb(b, j) + carry
         IN  <<s % Base>> \o MagAddFrom(a, b, j + 1, s \div Base)

MagAdd(a, b) == MagAddFrom(a, b, 1, 0)

RECURSIVE MagSubFrom(_, _, _, _)
MagSubFrom(a, b, j, borrow) ==
    IF j > Len(a) THEN <<>>
    ELSE LET d == Limb(a, j) - Limb(b, j) - borrow
         IN  IF d < 0
             THEN <<d + Base>> \o MagSubFrom(a, b, j + 1, 1)
             ELSE <<d>> \o MagSubFrom(a, b, j + 1, 0)

(* a - b for magnitudes with a >= b *)
MagSub(a, b) == MagTrim(MagSubFrom(a, b, 1, 0))

RECURSIVE MagLessFrom(_, _, _)
MagLessFrom(a, b, j) ==
    IF j = 0 THEN FALSE
    ELSE IF a[j] # b[j] THEN a[j] < b[j]
    ELSE MagLessFrom(a, b, j - 1)

MagLess(a, b) ==
    IF Len(a) # Len(b) THEN Len(a) < Len(b) ELSE MagLessFrom(a, b, Len(a))

RECURSIVE MagMulLimb(_, _, _, _)
MagMulLimb(a, d, j, carry) ==
    IF j > Len(a)
    THEN (IF carry = 0 THEN <<>> ELSE <<carry>>)
    ELSE LET s == a[j] * d + carry
         IN  <<s % Base>> \o MagMulLimb(a, d, j + 1, s \div Base)

RECURSIVE MagMul(_, _)
MagMul(a, b) ==
    IF a = <<>> \/ b = <<>> THEN <<>>
    ELSE MagAdd(MagTrim(MagMulLimb(a, Head(b), 1, 0)),
                MagTrim(<<0>> \o MagMul(a, Tail(b))))

(* Signed integers: zero is never negative, so equal numbers are equal values. *)
ZMake(neg, mag) == [neg |-> neg /\ mag # <<>>, mag |-> mag]

ZInt(k) == IF k < 0 THEN ZMake(TRUE, MagFromNat(-k)) ELSE ZMake(FALSE, MagFromNat(k))

ZNeg(x) == ZMake(~x.neg, x.mag)

ZAdd(x, y) ==
    IF x.neg = y.neg THEN ZMake(x.neg, MagAdd(x.mag, y.mag))
    ELSE IF MagLess(x.mag, y.mag) THEN ZMake(y.neg, MagSub(y.mag, x.mag))
    ELSE ZMake(x.neg, MagSub(x.mag, y.mag))

ZSub(x, y) == ZAdd(x, ZNeg(y))

ZMul(x, y) == ZMake(x.neg # y.neg, MagMul(x.mag, y.mag))

(* x * k for 0 <= k < Base *)
ZMulSmall(x, k) == ZMake(x.neg, MagTrim(MagMulLimb(x.mag, k, 1, 0)))

ZLess(x, y) ==
    IF x.neg # y.neg THEN x.neg
    ELSE IF x.neg THEN MagLess(y.mag, x.mag)
    ELSE MagLess(x.mag, y.mag)

ZLeq(x, y) == ~ZLess(y, x)

(* 2^e, by halving the exponent *)
RECURSIVE ZPow2(_)
ZPow2(e) ==
    IF e < 30 THEN ZInt(2 ^ e)
    ELSE LET h == ZPow2(e \div 2)
         IN  IF e % 2 = 0 THEN ZMul(h, h) ELSE ZMul(ZInt(2), ZMul(h, h))

(* the rational a / 2^ea compared with b / 2^eb *)
QEq(a, ea, b, eb) == ZMul(a, ZPow2(eb)) = ZMul(b, ZPow2(ea))
QLess(a, ea, b, eb) == ZLess(ZMul(a, ZPow2(eb)), ZMul(b, ZPow2(ea)))

(* the rational a / 2^ea compared with the fraction p / q, q > 0 *)
QEqFrac(a, ea, p, q) == ZMul(a, ZInt(q)) = ZMul(ZInt(p), ZPow2(ea))
QGreaterFrac(a, ea, p, q) == ZLess(ZMul(ZInt(p), ZPow2(ea)), ZMul(a, ZInt(q)))

-----------------------------------------------------------------------------
(* Python values passed as arguments: the type and, where it has one, the   *)
(* numeric value (2.0 is PyFloat(2); a string has no value and carries 0).  *)

PyInt(k) == [t |-> "int", v |-> k]
PyFloat(k) == [t |-> "float", v |-> k]
PyBool(b) == [t |-> "bool", v |-> IF b THEN 1 ELSE 0]
PyStr == [t |-> "str", v |-> 0]
PyNone == [t |-> "NoneType", v |-> 0]

(* isinstance(x, int): bool is a subclass of int *)
IsInstanceInt(x) == x.t \in {"int", "bool"}

(* A predicate is known by the set of indices it is true of; a value that   *)
(* is not callable has callable = FALSE.                                    *)
Lambda(S) == [callable |-> TRUE, marked |-> S]
NotCallable == [callable |-> FALSE, marked |-> {}]

-----------------------------------------------------------------------------
(* The pure parts of the program. *)

CZero == [re |-> ZInt(0), im |-> ZInt(0)]
CNeg(z) == [re |-> ZNeg(z.re), im |-> ZNeg(z.im)]
CAdd(z, w) == [re |-> ZAdd(z.re, w.re), im |-> ZAdd(z.im, w.im)]
CSub(z, w) == [re |-> ZSub(z.re, w.re), im |-> ZSub(z.im, w.im)]
CScale(k, z) == [re |-> ZMulSmall(z.re, k), im |-> ZMulSmall(z.im, k)]

NoVector == [amp |-> <<>>, exp |-> 0]
NoProbs == [num |-> <<>>, exp |-> 0]

VecLen(sv) == Cardinality(DOMAIN sv.amp)

RECURSIVE Log2(_)
Log2(N) == IF N <= 1 THEN 0 ELSE 1 + Log2(N \div 2)

(* a changed _initial_state: the amplitude halved *)
InitialStateHalved(N) ==
    [amp |-> [i \in 0..(N - 1) |-> [re |-> ZInt(1), im |-> ZInt(0)]], exp |-> 1]

(* Grover._initial_state: np.full(num_states, 1/sqrt(num_states), dtype=complex) *)
InitialState(N) ==
    [amp |-> [i \in 0..(N - 1) |-> [re |-> ZInt(1), im |-> ZInt(0)]], exp |-> 0]

(* a changed _oracle: the predicate asked about i + 1 instead of i *)
OracleOffByOne(sv, N, fn) ==
    [sv EXCEPT !.amp = [i \in DOMAIN sv.amp |->
        IF i < N /\ (i + 1) \in fn.marked THEN CNeg(sv.amp[i]) ELSE sv.amp[i]]]

(* a changed _oracle: the loop starts at index 1 *)
OracleSkipsIndexZero(sv, N, fn) ==
    [sv EXCEPT !.amp = [i \in DOMAIN sv.amp |->
        IF 1 <= i /\ i < N /\ i \in fn.marked THEN CNeg(sv.amp[i]) ELSE sv.amp[i]]]

(* a changed _oracle: a marked amplitude set to 0 instead of negated *)
OracleZeroesMarked(sv, N, fn) ==
    [sv EXCEPT !.amp = [i \in DOMAIN sv.amp |->
        IF i < N /\ i \in fn.marked THEN CZero ELSE sv.amp[i]]]

(* a changed _oracle: the test inverted, the unmarked amplitudes negated *)
OracleNegatesUnmarked(sv, N, fn) ==
    [sv EXCEPT !.amp = [i \in DOMAIN sv.amp |->
        IF i < N /\ i \notin fn.marked THEN CNeg(sv.amp[i]) ELSE sv.amp[i]]]

(* Grover._oracle: negate the amplitude of every index the predicate is true of *)
Oracle(sv, N, fn) ==
    [sv EXCEPT !.amp = [i \in DOMAIN sv.amp |->
        IF i < N /\ i \in fn.marked THEN CNeg(sv.amp[i]) ELSE sv.amp[i]]]

(* Grover._oracle's loop, for i in range(num_states): the indices it calls   *)
(* the predicate with, in order                                             *)
OracleCalls(N) == [j \in 1..N |-> j - 1]

(* the sum of amp[lo..hi], splitting the range in halves *)
RECURSIVE SumRange(_, _, _)
SumRange(amp, lo, hi) ==
    IF lo > hi THEN CZero
    ELSE IF lo = hi THEN amp[lo]
    ELSE LET mid == (lo + hi) \div 2
         IN  CAdd(SumRange(amp, lo, mid), SumRange(amp, mid + 1, hi))

(* np.mean(state_vector): the sum over the length, the length being 2^n *)
Mean(sv) ==
    [val |-> SumRange(sv.amp, 0, VecLen(sv) - 1), exp |-> sv.exp + Log2(VecLen(sv))]

(* a changed _diffuser: mean - state_vector, the factor 2 lost *)
DiffuserNoDouble(sv) ==
    LET mean == Mean(sv)
        N == VecLen(sv)
    IN  [amp |-> [i \in DOMAIN sv.amp |-> CSub(mean.val, CScale(N, sv.amp[i]))],
         exp |-> mean.exp]

(* a changed _diffuser: the mean's sum leaves out the last amplitude *)
DiffuserMeanWithoutLast(sv) ==
    LET N == VecLen(sv)
        twice == CScale(2, SumRange(sv.amp, 0, N - 2))
    IN  [amp |-> [i \in DOMAIN sv.amp |-> CSub(twice, CScale(N, sv.amp[i]))],
         exp |-> sv.exp + Log2(N)]

(* a changed _diffuser: the slice assigned starts at index 1 *)
DiffuserLeavesIndexZero(sv) ==
    LET mean == Mean(sv)
        twice == CScale(2, mean.val)
        N == VecLen(sv)
    IN  [amp |-> [i \in DOMAIN sv.amp |->
                    IF i = 0 THEN CScale(N, sv.amp[i])
                    ELSE CSub(twice, CScale(N, sv.amp[i]))],
         exp |-> mean.exp]

(* Grover._diffuser: state_vector = 2 * mean - state_vector *)
Diffuser(sv) ==
    LET mean == Mean(sv)
        twice == CScale(2, mean.val)
        N == VecLen(sv)
    IN  [amp |-> [i \in DOMAIN sv.amp |-> CSub(twice, CScale(N, sv.amp[i]))],
         exp |-> mean.exp]

(* Grover.get_probabilities: np.abs(state_vector)**2 *)
GetProbabilities(sv) ==
    [num |-> [i \in DOMAIN sv.amp |->
                ZAdd(ZMul(sv.amp[i].re, sv.amp[i].re), ZMul(sv.amp[i].im, sv.amp[i].im))],
     exp |-> 2 * sv.exp + Log2(VecLen(sv))]

(* np.argmax: the first index holding the largest entry *)
RECURSIVE ArgmaxFrom(_, _, _)
ArgmaxFrom(p, i, best) ==
    IF i \notin DOMAIN p.num THEN best
    ELSE ArgmaxFrom(p, i + 1, IF ZLess(p.num[best], p.num[i]) THEN i ELSE best)

(* a changed argmax: the last index holding the largest entry *)
RECURSIVE ArgmaxLastFrom(_, _, _)
ArgmaxLastFrom(p, i, best) ==
    IF i \notin DOMAIN p.num THEN best
    ELSE ArgmaxLastFrom(p, i + 1, IF ZLeq(p.num[best], p.num[i]) THEN i ELSE best)

ArgmaxLast(p) == ArgmaxLastFrom(p, 1, 0)

Argmax(p) == ArgmaxFrom(p, 1, 0)

(* int(np.floor(np.pi / 4 * np.sqrt(N))): the largest k with 4k <= pi*sqrt(N), *)
(* pi taken as PiNum/PiDen                                                     *)
PiNum == 355
PiDen == 113

RECURSIVE FloorQuarterPiSqrt(_, _)
FloorQuarterPiSqrt(N, k) ==
    IF (4 * (k + 1) * PiDen) * (4 * (k + 1) * PiDen) <= PiNum * PiNum * N
    THEN FloorQuarterPiSqrt(N, k + 1)
    ELSE k

(* a changed default: rounded up instead of down *)
OptimalIterationsCeil(N) == FloorQuarterPiSqrt(N, 0) + 1

(* a changed default: floor(pi / 4 * N), the square root lost *)
OptimalIterationsNoSqrt(N) == (PiNum * N) \div (4 * PiDen)

OptimalIterations(N) == FloorQuarterPiSqrt(N, 0)

(* a changed factory: the bound check lets marked_item_index = num_total_items pass *)
ExampleOracleFactoryInclusive(m, total) ==
    IF ~(0 <= m /\ m <= total)
    THEN [raised |-> "ValueError", fn |-> NotCallable]
    ELSE [raised |-> "none", fn |-> Lambda({m})]

(* example_oracle_factory(marked_item_index, num_total_items) *)
ExampleOracleFactory(m, total) ==
    IF ~(0 <= m /\ m < total)
    THEN [raised |-> "ValueError", fn |-> NotCallable]
    ELSE [raised |-> "none", fn |-> Lambda({m})]

(* k oracle/diffuser pairs applied to sv *)
RECURSIVE Iterate(_, _, _, _)
Iterate(sv, N, fn, k) ==
    IF k = 0 THEN sv ELSE Iterate(Diffuser(Oracle(sv, N, fn)), N, fn, k - 1)

-----------------------------------------------------------------------------
(* The state: the caller's oracle, the fields of the one Grover object, the  *)
(* position inside run_algorithm, and what the calls made so far returned.   *)

VARIABLES
    pc,               \* "start": no object yet; "failed": the constructor or the
                      \* factory raised; "idle": object built, no call in progress;
                      \* "oracle", "diffuser", "measure": inside run_algorithm
    oracle_func,      \* what example_oracle_factory returned to the caller
    num_total_items,  \* the space size the caller gave the factory, 0 before that
    num_qubits,       \* self.num_qubits
    num_states,       \* self.num_states
    oracle_function,  \* self.oracle_function
    state_vector,     \* self.state_vector
    num_iterations,   \* run_algorithm's num_iterations after defaulting
    iteration,        \* completed passes of run_algorithm's loop
    outcome,          \* the latest call: its name, argument and exception
    run_arg,          \* the argument of the latest run_algorithm that passed validation
    measured,         \* the index the latest completed run_algorithm returned, or -1
    probabilities,    \* the array returned, when the latest call is get_probabilities
    sv_before,        \* state_vector on entry to the latest run_algorithm call
    steps,            \* the operator applications of the latest run_algorithm, in order
    pairs,            \* oracle/diffuser pairs completed since construction
    predicate_calls,  \* the indices the latest _oracle called the predicate with, in order
    runs              \* run_algorithm calls that passed validation: 0, 1 or 2 (two or more)

vars == <<pc, oracle_func, num_total_items, num_qubits, num_states, oracle_function, state_vector,
          num_iterations, iteration, outcome, run_arg, measured, probabilities,
          sv_before, steps, pairs, predicate_calls, runs>>

caller == <<oracle_func, num_total_items>>
object == <<num_qubits, num_states, oracle_function, state_vector>>
locals == <<num_iterations, iteration, run_arg, measured, sv_before, steps, pairs,
            predicate_calls, runs>>

Call(name, arg, raised) == [call |-> name, arg |-> arg, raised |-> raised]

(* The arguments the caller tries. *)
QubitInputs ==
    {PyInt(k) : k \in -1..MaxQubits} \cup {PyFloat(2), PyStr, PyNone}

IterationInputs ==
    {PyInt(k) : k \in -1..MaxIter} \cup {PyFloat(1), PyNone}

SpaceSizes == {2 ^ q : q \in 1..MaxQubits}

(* The lambdas the caller passes with a qubit count of value n: every        *)
(* predicate over the 2^n indices for the small valid counts, and            *)
(* lambda x: False with a count that is not positive, as the tests do.       *)
LambdaInputs(n) ==
    IF n \in 1..MaxLambdaQubits THEN {Lambda(S) : S \in SUBSET (0..(2 ^ n - 1))}
    ELSE IF n <= 0 THEN {Lambda({})}
    ELSE {}

(* The caller passes the factory's oracle to a simulator of the space it     *)
(* sized the oracle for, or with a qubit count the constructor rejects;      *)
(* without a factory oracle it passes a lambda or a value that is not        *)
(* callable.                                                                 *)
OracleInputs(nq) ==
    IF num_total_items = 0
    THEN LambdaInputs(nq.v) \cup {NotCallable}
    ELSE IF ~IsInstanceInt(nq) \/ nq.v <= 0
    THEN {oracle_func}
    ELSE IF 2 ^ nq.v = num_total_items
    THEN {oracle_func}
    ELSE {}

Init ==
    /\ pc = "start"
    /\ oracle_func = NotCallable
    /\ num_total_items = 0
    /\ num_qubits = 0
    /\ num_states = 0
    /\ oracle_function = NotCallable
    /\ state_vector = NoVector
    /\ num_iterations = 0
    /\ iteration = 0
    /\ outcome = Call("none", PyNone, "none")
    /\ run_arg = PyNone
    /\ measured = -1
    /\ probabilities = NoProbs
    /\ sv_before = NoVector
    /\ steps = <<>>
    /\ pairs = 0
    /\ predicate_calls = <<>>
    /\ runs = 0

(* oracle_func = example_oracle_factory(m, total) *)
MakeOracle(m, total) ==
    /\ pc = "start"
    /\ outcome.call = "none"
    /\ LET made == ExampleOracleFactory(m, total)
       IN  /\ oracle_func' = made.fn
           /\ num_total_items' = total
           /\ outcome' = Call("example_oracle_factory", PyInt(m), made.raised)
           /\ pc' = IF made.raised = "none" THEN "start" ELSE "failed"
    /\ UNCHANGED <<object, locals, probabilities>>

(* a changed constructor: it rejects only negative qubit counts *)
ConstructAcceptsZero(nq, fn) ==
    /\ pc = "start"
    /\ probabilities' = NoProbs
    /\ UNCHANGED <<caller, locals>>
    /\ IF ~IsInstanceInt(nq) \/ nq.v < 0
       THEN /\ outcome' = Call("Grover", nq, "ValueError")
            /\ pc' = "failed"
            /\ UNCHANGED object
       ELSE /\ num_qubits' = nq.v
            /\ num_states' = 2 ^ nq.v
            /\ IF ~fn.callable
               THEN /\ outcome' = Call("Grover", nq, "TypeError")
                    /\ pc' = "failed"
                    /\ UNCHANGED <<oracle_function, state_vector>>
               ELSE /\ oracle_function' = fn
                    /\ state_vector' = InitialState(num_states')
                    /\ outcome' = Call("Grover", nq, "none")
                    /\ pc' = "idle"

(* a changed constructor: the predicate is stored without the callable check *)
ConstructNoCallableCheck(nq, fn) ==
    /\ pc = "start"
    /\ probabilities' = NoProbs
    /\ UNCHANGED <<caller, locals>>
    /\ IF ~IsInstanceInt(nq) \/ nq.v <= 0
       THEN /\ outcome' = Call("Grover", nq, "ValueError")
            /\ pc' = "failed"
            /\ UNCHANGED object
       ELSE /\ num_qubits' = nq.v
            /\ num_states' = 2 ^ nq.v
            /\ oracle_function' = fn
            /\ state_vector' = InitialState(num_states')
            /\ outcome' = Call("Grover", nq, "none")
            /\ pc' = "idle"

(* Grover(nq, fn) *)
Construct(nq, fn) ==
    /\ pc = "start"
    /\ probabilities' = NoProbs
    /\ UNCHANGED <<caller, locals>>
    /\ IF ~IsInstanceInt(nq) \/ nq.v <= 0
       THEN /\ outcome' = Call("Grover", nq, "ValueError")
            /\ pc' = "failed"
            /\ UNCHANGED object
       ELSE /\ num_qubits' = nq.v
            /\ num_states' = 2 ^ nq.v
            /\ IF ~fn.callable
               THEN /\ outcome' = Call("Grover", nq, "TypeError")
                    /\ pc' = "failed"
                    /\ UNCHANGED <<oracle_function, state_vector>>
               ELSE /\ oracle_function' = fn
                    /\ state_vector' = InitialState(num_states')
                    /\ outcome' = Call("Grover", nq, "none")
                    /\ pc' = "idle"

(* a changed run_algorithm: a supplied count is used as it is, unvalidated *)
RunAlgorithmNoValidation(arg) ==
    /\ pc = "idle"
    /\ sv_before' = state_vector
    /\ probabilities' = NoProbs
    /\ UNCHANGED <<caller, object, pairs, predicate_calls>>
    /\ LET k == IF arg = PyNone THEN OptimalIterations(num_states) ELSE arg.v
       IN  /\ k <= MaxIter
           /\ runs = 0 \/ pairs + k <= MaxRerunPairs
           /\ num_iterations' = k
           /\ iteration' = 0
           /\ run_arg' = arg
           /\ measured' = -1
           /\ steps' = <<>>
           /\ runs' = IF runs < 2 THEN runs + 1 ELSE runs
           /\ outcome' = Call("run_algorithm", arg, "none")
           /\ pc' = IF k > 0 THEN "oracle" ELSE "measure"

(* a changed run_algorithm: every call starts again from the uniform state *)
RunAlgorithmFromInitialState(arg) ==
    /\ pc = "idle"
    /\ sv_before' = state_vector
    /\ probabilities' = NoProbs
    /\ UNCHANGED <<caller, num_qubits, num_states, oracle_function, pairs, predicate_calls>>
    /\ IF arg # PyNone /\ (~IsInstanceInt(arg) \/ arg.v < 0)
       THEN /\ outcome' = Call("run_algorithm", arg, "ValueError")
            /\ UNCHANGED <<pc, state_vector, num_iterations, iteration, run_arg, measured,
                           steps, runs>>
       ELSE LET k == IF arg = PyNone THEN OptimalIterations(num_states) ELSE arg.v
            IN  /\ k <= MaxIter
                /\ runs = 0 \/ pairs + k <= MaxRerunPairs
                /\ state_vector' = InitialState(num_states)
                /\ num_iterations' = k
                /\ iteration' = 0
                /\ run_arg' = arg
                /\ measured' = -1
                /\ steps' = <<>>
                /\ runs' = IF runs < 2 THEN runs + 1 ELSE runs
                /\ outcome' = Call("run_algorithm", arg, "none")
                /\ pc' = IF k > 0 THEN "oracle" ELSE "measure"

(* run_algorithm(arg), up to the loop: defaulting and validation.  The      *)
(* caller asks for at most MaxIter iterations, and runs a simulator again    *)
(* only while its pairs since construction stay within MaxRerunPairs.        *)
RunAlgorithm(arg) ==
    /\ pc = "idle"
    /\ sv_before' = state_vector
    /\ probabilities' = NoProbs
    /\ UNCHANGED <<caller, object, pairs, predicate_calls>>
    /\ IF arg # PyNone /\ (~IsInstanceInt(arg) \/ arg.v < 0)
       THEN /\ outcome' = Call("run_algorithm", arg, "ValueError")
            /\ UNCHANGED <<pc, num_iterations, iteration, run_arg, measured, steps, runs>>
       ELSE LET k == IF arg = PyNone THEN OptimalIterations(num_states) ELSE arg.v
            IN  /\ k <= MaxIter
                /\ runs = 0 \/ pairs + k <= MaxRerunPairs
                /\ num_iterations' = k
                /\ iteration' = 0
                /\ run_arg' = arg
                /\ measured' = -1
                /\ steps' = <<>>
                /\ runs' = IF runs < 2 THEN runs + 1 ELSE runs
                /\ outcome' = Call("run_algorithm", arg, "none")
                /\ pc' = IF k > 0 THEN "oracle" ELSE "measure"

(* self._oracle() *)
OracleStep ==
    /\ pc = "oracle"
    /\ state_vector' = Oracle(state_vector, num_states, oracle_function)
    /\ predicate_calls' = OracleCalls(num_states)
    /\ steps' = Append(steps, "oracle")
    /\ pc' = "diffuser"
    /\ UNCHANGED <<caller, num_qubits, num_states, oracle_function, num_iterations,
                   iteration, outcome, run_arg, measured, probabilities, sv_before,
                   pairs, runs>>

(* a changed loop: it ends after its first pass *)
DiffuserStepEarlyExit ==
    /\ pc = "diffuser"
    /\ state_vector' = Diffuser(state_vector)
    /\ steps' = Append(steps, "diffuser")
    /\ iteration' = iteration + 1
    /\ pairs' = pairs + 1
    /\ pc' = "measure"
    /\ UNCHANGED <<caller, num_qubits, num_states, oracle_function, num_iterations,
                   outcome, run_arg, measured, probabilities, sv_before,
                   predicate_calls, runs>>

(* a changed loop: one pass more than num_iterations *)
DiffuserStepOnePassMore ==
    /\ pc = "diffuser"
    /\ state_vector' = Diffuser(state_vector)
    /\ steps' = Append(steps, "diffuser")
    /\ iteration' = iteration + 1
    /\ pairs' = pairs + 1
    /\ pc' = IF iteration + 1 <= num_iterations THEN "oracle" ELSE "measure"
    /\ UNCHANGED <<caller, num_qubits, num_states, oracle_function, num_iterations,
                   outcome, run_arg, measured, probabilities, sv_before,
                   predicate_calls, runs>>

(* self._diffuser(), and the loop's next pass or its end *)
DiffuserStep ==
    /\ pc = "diffuser"
    /\ state_vector' = Diffuser(state_vector)
    /\ steps' = Append(steps, "diffuser")
    /\ iteration' = iteration + 1
    /\ pairs' = pairs + 1
    /\ pc' = IF iteration + 1 < num_iterations THEN "oracle" ELSE "measure"
    /\ UNCHANGED <<caller, num_qubits, num_states, oracle_function, num_iterations,
                   outcome, run_arg, measured, probabilities, sv_before,
                   predicate_calls, runs>>

(* the measurement that ends run_algorithm: np.argmax(self.get_probabilities()) *)
Measure ==
    /\ pc = "measure"
    /\ measured' = Argmax(GetProbabilities(state_vector))
    /\ steps' = Append(steps, "measure")
    /\ pc' = "idle"
    /\ UNCHANGED <<caller, object, num_iterations, iteration, outcome, run_arg,
                   probabilities, sv_before, pairs, predicate_calls, runs>>

(* a changed get_probabilities: the squares are written back into the vector *)
ReadProbabilitiesInPlace ==
    /\ pc = "idle"
    /\ probabilities' = GetProbabilities(state_vector)
    /\ state_vector' = [amp |-> [i \in DOMAIN state_vector.amp |->
                                    [re |-> probabilities'.num[i], im |-> ZInt(0)]],
                        exp |-> probabilities'.exp]
    /\ outcome' = Call("get_probabilities", PyNone, "none")
    /\ UNCHANGED <<pc, caller, num_qubits, num_states, oracle_function, locals>>

(* get_probabilities() called by the caller *)
ReadProbabilities ==
    /\ pc = "idle"
    /\ probabilities' = GetProbabilities(state_vector)
    /\ outcome' = Call("get_probabilities", PyNone, "none")
    /\ UNCHANGED <<pc, caller, object, locals>>

Next ==
    \/ \E total \in SpaceSizes : \E m \in -1..total : MakeOracle(m, total)
    \/ \E nq \in QubitInputs : \E fn \in OracleInputs(nq) : Construct(nq, fn)
    \/ \E arg \in IterationInputs : RunAlgorithm(arg)
    \/ OracleStep
    \/ DiffuserStep
    \/ Measure
    \/ ReadProbabilities

Spec == Init /\ [][Next]_vars

-----------------------------------------------------------------------------
(* What the claims speak of. *)

Constructed == pc \in {"idle", "oracle", "diffuser", "measure"}

(* a run_algorithm call has just returned: it is the latest call, it passed *)
(* validation and its measurement is made                                   *)
RunReturned ==
    /\ pc = "idle"
    /\ runs >= 1
    /\ outcome = Call("run_algorithm", run_arg, "none")

(* the first run_algorithm call made on this simulator has just returned *)
FirstRunReturned == RunReturned /\ runs = 1

(* the simulator was built with example_oracle_factory(m, 2^num_qubits) *)
BuiltWithFactory(m) ==
    /\ Constructed
    /\ num_total_items = num_states
    /\ oracle_function = Lambda({m})

RECURSIVE ZSumRange(_, _, _)
ZSumRange(f, lo, hi) ==
    IF lo > hi THEN ZInt(0)
    ELSE IF lo = hi THEN f[lo]
    ELSE LET mid == (lo + hi) \div 2
         IN  ZAdd(ZSumRange(f, lo, mid), ZSumRange(f, mid + 1, hi))

(* the entries of a probability array add up to 1 *)
SumsToOne(p) == ZSumRange(p.num, 0, Cardinality(DOMAIN p.num) - 1) = ZPow2(p.exp)

(* entry i of a probability array against the fraction a / b *)
ProbIs(p, i, a, b) == QEqFrac(p.num[i], p.exp, a, b)
ProbExceeds(p, i, a, b) == QGreaterFrac(p.num[i], p.exp, a, b)

(* the indices the predicate marks inside the search space *)
MarkedInSpace == oracle_function.marked \cap (0..(num_states - 1))

-----------------------------------------------------------------------------
(* C1: the probabilities get_probabilities returns sum to 1 after           *)
(* construction and after every completed oracle+diffuser pair of            *)
(* run_algorithm, whatever the qubit count, the predicate and the number of  *)
(* iterations.  The vector is looked at when the constructor has returned,   *)
(* at each head of the loop and at the measurement that follows the last     *)
(* pair; no other step assigns it.  The array a get_probabilities call of    *)
(* the caller returned sums to 1 as well.                                    *)
C1_NormInvariance ==
    /\ (\/ pc = "idle" /\ outcome.call = "Grover"
        \/ pc \in {"oracle", "measure"}) =>
           SumsToOne(GetProbabilities(state_vector))
    /\ probabilities # NoProbs => SumsToOne(probabilities)

(* a second pair has completed under a predicate marking some but not all,   *)
(* and more than one, of the indices                                         *)
C1_Witness ==
    /\ pc = "oracle"
    /\ iteration >= 2
    /\ Cardinality(MarkedInSpace) \in 2..(num_states - 1)
    /\ SumsToOne(GetProbabilities(state_vector))

(* C2: a simulator constructed and run with 0 iterations has a state vector  *)
(* of length 2^n, every amplitude 1/sqrt(2^n), and every probability 1/2^n.  *)
C2_UniformAfterZeroIterations ==
    (FirstRunReturned /\ num_iterations = 0) =>
        /\ DOMAIN state_vector.amp = 0..(2 ^ num_qubits - 1)
        /\ \A i \in DOMAIN state_vector.amp :
              /\ QEq(state_vector.amp[i].re, state_vector.exp, ZInt(1), 0)
              /\ state_vector.amp[i].im = ZInt(0)
              /\ ProbIs(GetProbabilities(state_vector), i, 1, 2 ^ num_qubits)

C2_Witness ==
    /\ FirstRunReturned
    /\ num_iterations = 0
    /\ num_qubits = 3
    /\ ProbIs(GetProbabilities(state_vector), 7, 1, 8)

(* C3: for n in 2..5 and every marked index m, a fresh simulator built with  *)
(* example_oracle_factory(m, 2^n) and run with iterations omitted returns m, *)
(* and the probability of m afterwards exceeds 0.9.                          *)
C3_FindsMarkedItem ==
    \A m \in 0..(num_states - 1) :
        (/\ FirstRunReturned
         /\ run_arg = PyNone
         /\ num_qubits \in 2..5
         /\ BuiltWithFactory(m)) =>
            /\ measured = m
            /\ ProbExceeds(GetProbabilities(state_vector), m, 9, 10)

C3_Witness ==
    /\ FirstRunReturned
    /\ run_arg = PyNone
    /\ num_qubits = 5
    /\ BuiltWithFactory(17)
    /\ num_iterations = 4
    /\ measured = 17

(* C4: for n = 3 with marked index 2, a fresh simulator run with             *)
(* iterations = 1 returns 2 and leaves the probability of index 2 at 25/32.  *)
C4_OneIterationThreeQubits ==
    (/\ FirstRunReturned
     /\ run_arg = PyInt(1)
     /\ num_qubits = 3
     /\ BuiltWithFactory(2)) =>
        /\ measured = 2
        /\ ProbIs(GetProbabilities(state_vector), 2, 25, 32)

C4_Witness ==
    /\ FirstRunReturned
    /\ run_arg = PyInt(1)
    /\ num_qubits = 3
    /\ BuiltWithFactory(2)
    /\ pairs = 1

(* C5: for n = 3 with marked index 2, a fresh simulator run with             *)
(* iterations = 2 returns 2, and the probability of index 2 exceeds 0.94.    *)
C5_TwoIterationsThreeQubits ==
    (/\ FirstRunReturned
     /\ run_arg = PyInt(2)
     /\ num_qubits = 3
     /\ BuiltWithFactory(2)) =>
        /\ measured = 2
        /\ ProbExceeds(GetProbabilities(state_vector), 2, 94, 100)

C5_Witness ==
    /\ FirstRunReturned
    /\ run_arg = PyInt(2)
    /\ num_qubits = 3
    /\ BuiltWithFactory(2)
    /\ measured = 2

(* C6: the index run_algorithm returns holds a largest probability, and is   *)
(* the lowest index that does; over a uniform distribution it is 0.          *)
C6_ArgmaxLowestIndex ==
    RunReturned =>
        LET p == GetProbabilities(state_vector)
        IN  /\ measured \in DOMAIN p.num
            /\ \A j \in DOMAIN p.num : ZLeq(p.num[j], p.num[measured])
            /\ \A j \in DOMAIN p.num : j < measured => ZLess(p.num[j], p.num[measured])

(* a run over a uniform distribution of four or more entries returned 0 *)
C6_Witness ==
    /\ RunReturned
    /\ num_states >= 4
    /\ LET p == GetProbabilities(state_vector)
       IN  \A j \in DOMAIN p.num : p.num[j] = p.num[0]
    /\ measured = 0

(* the state vectors a and b hold the same amplitudes *)
VecEq(a, b) ==
    /\ DOMAIN a.amp = DOMAIN b.amp
    /\ \A i \in DOMAIN a.amp :
          /\ QEq(a.amp[i].re, a.exp, b.amp[i].re, b.exp)
          /\ QEq(a.amp[i].im, a.exp, b.amp[i].im, b.exp)

(* the state vector k pairs after construction *)
AfterPairs(k) == Iterate(InitialState(num_states), num_states, oracle_function, k)

(* entry i of p is less than entry i of q *)
ProbLess(p, q, i) == QLess(p.num[i], p.exp, q.num[i], q.exp)

(* C7, as claimed: for a single marked index the probability of the marked   *)
(* index after the default floor(pi/4 * sqrt(N)) iterations from the uniform *)
(* state is at least its probability after any other iteration count.        *)
C7_DefaultBeatsEveryCount ==
    \A m \in 0..(num_states - 1) :
        (FirstRunReturned /\ BuiltWithFactory(m)) =>
            ~ProbLess(GetProbabilities(AfterPairs(OptimalIterations(num_states))),
                      GetProbabilities(state_vector), m)

(* C7, amended: ... at least its probability after any iteration count k     *)
(* with 0 <= k <= floor(pi/4 * sqrt(N)) + 1.                                 *)
C7_DefaultIsFirstPeak ==
    \A m \in 0..(num_states - 1) :
        (/\ FirstRunReturned
         /\ BuiltWithFactory(m)
         /\ num_iterations <= OptimalIterations(num_states) + 1) =>
            ~ProbLess(GetProbabilities(AfterPairs(OptimalIterations(num_states))),
                      GetProbabilities(state_vector), m)

(* five qubits run one iteration past the default 4, with a lower            *)
(* probability of the marked index than the default run gives                *)
C7_Witness ==
    /\ FirstRunReturned
    /\ BuiltWithFactory(17)
    /\ num_qubits = 5
    /\ num_iterations = 5
    /\ ProbLess(GetProbabilities(state_vector),
                GetProbabilities(AfterPairs(OptimalIterations(num_states))), 17)

(* C8, as claimed: at every measurement run_algorithm makes, in any sequence *)
(* of calls, the state vector is the uniform superposition transformed by    *)
(* exactly that call's iteration count of oracle/diffuser pairs; a call with *)
(* 0 iterations measures the uniform distribution.                           *)
C8_MeasuresThisCallsIterations ==
    pc = "measure" => VecEq(state_vector, AfterPairs(num_iterations))

(* C9: run_algorithm with a supplied count that is negative or not an        *)
(* integer fails with an error before any oracle or diffuser step, the state *)
(* vector after the failed call being the one before it.                     *)
C9_InvalidIterationsRejected ==
    (/\ outcome.call = "run_algorithm"
     /\ outcome.arg # PyNone
     /\ (~IsInstanceInt(outcome.arg) \/ outcome.arg.v < 0)) =>
        /\ outcome.raised = "ValueError"
        /\ pc = "idle"
        /\ state_vector = sv_before
        /\ GetProbabilities(state_vector) = GetProbabilities(sv_before)

(* run_algorithm(-1) failed on a simulator whose earlier run left it away    *)
(* from the uniform state                                                    *)
C9_Witness ==
    /\ outcome = Call("run_algorithm", PyInt(-1), "ValueError")
    /\ pairs >= 1
    /\ state_vector = sv_before
    /\ ~VecEq(state_vector, InitialState(num_states))

(* C10: Grover with a qubit count that is <= 0 or not an integer fails with  *)
(* an error and no state vector is created; every positive integer n is      *)
(* accepted and gives num_states = 2^n.                                      *)
C10_QubitCountValidated ==
    /\ (outcome.call = "Grover" /\ (~IsInstanceInt(outcome.arg) \/ outcome.arg.v <= 0)) =>
          /\ outcome.raised = "ValueError"
          /\ pc = "failed"
          /\ state_vector = NoVector
    /\ (outcome.call = "Grover" /\ IsInstanceInt(outcome.arg) /\ outcome.arg.v > 0) =>
          /\ outcome.raised # "ValueError"
          /\ num_qubits = outcome.arg.v
          /\ num_states = 2 ^ outcome.arg.v
          /\ outcome.raised = "none" =>
                pc = "idle" /\ DOMAIN state_vector.amp = 0..(num_states - 1)

(* Grover(0, ...) raised and left no simulator *)
C10_Witness ==
    /\ outcome = Call("Grover", PyInt(0), "ValueError")
    /\ pc = "failed"
    /\ state_vector = NoVector

(* C11: Grover with a predicate that is not callable fails with an error in  *)
(* the constructor, before the state vector is initialised: no simulator     *)
(* exists afterwards, so no run_algorithm call and no use of the predicate   *)
(* follows, and every simulator that exists holds a callable predicate.      *)
C11_NonCallableRejectedAtConstruction ==
    /\ [](/\ outcome = Call("Grover", outcome.arg, "TypeError") =>
               /\ pc = "failed"
               /\ state_vector = NoVector
               /\ runs = 0
               /\ steps = <<>>
          /\ Constructed => oracle_function.callable)
    /\ [][\A nq \in QubitInputs :
             Construct(nq, NotCallable) =>
                 /\ outcome'.raised \in {"TypeError", "ValueError"}
                 /\ IsInstanceInt(nq) /\ nq.v > 0 => outcome'.raised = "TypeError"
                 /\ pc' = "failed"
                 /\ state_vector' = NoVector]_vars

(* Grover(2, "not a function") raised TypeError and left no state vector *)
C11_Witness ==
    /\ outcome = Call("Grover", PyInt(2), "TypeError")
    /\ pc = "failed"
    /\ state_vector = NoVector

(* C12: example_oracle_factory(m, size) fails with an error exactly when m   *)
(* is outside [0, size); otherwise it returns a predicate that is true of    *)
(* index m and false of every other index in 0..size-1.                      *)
C12_FactoryBoundCheck ==
    outcome.call = "example_oracle_factory" =>
        LET m == outcome.arg.v
            size == num_total_items
        IN  /\ outcome.raised \in {"none", "ValueError"}
            /\ outcome.raised = "ValueError" <=> ~(0 <= m /\ m < size)
            /\ outcome.raised = "ValueError" => pc = "failed" /\ ~oracle_func.callable
            /\ outcome.raised = "none" =>
                  /\ oracle_func.callable
                  /\ \A i \in 0..(size - 1) : i \in oracle_func.marked <=> i = m

(* example_oracle_factory(4, 4) raised *)
C12_Witness ==
    /\ outcome = Call("example_oracle_factory", PyInt(4), "ValueError")
    /\ num_total_items = 4
    /\ pc = "failed"

(* C13: get_probabilities does not change the state vector, and the array a  *)
(* call returned is the array a further call returns while no run_algorithm  *)
(* call comes between, in every reachable state of the simulator.            *)
C13_ReadIsIdempotent ==
    /\ [](probabilities # NoProbs => probabilities = GetProbabilities(state_vector))
    /\ [][(outcome'.call = "get_probabilities" /\ ReadProbabilities) =>
             /\ state_vector' = state_vector
             /\ probabilities # NoProbs => probabilities' = probabilities]_vars

(* get_probabilities was called on a simulator that two pairs took away from *)
(* the uniform state                                                         *)
C13_Witness ==
    /\ outcome.call = "get_probabilities"
    /\ pairs >= 2
    /\ probabilities = GetProbabilities(state_vector)
    /\ ~VecEq(state_vector, InitialState(num_states))

(* the steps of a run_algorithm call of k iterations, in order *)
AlternationOf(k) ==
    [j \in 1..(2 * k + 1) |->
        IF j = 2 * k + 1 THEN "measure" ELSE IF j % 2 = 1 THEN "oracle" ELSE "diffuser"]

(* floor(pi/4 * sqrt(2^n)) for n = 1..5 *)
DefaultCountTable == <<1, 1, 2, 3, 4>>

(* C14: run_algorithm applies the oracle and the diffuser k times each, in   *)
(* strict alternation starting with the oracle, and measures only after the  *)
(* last diffuser; k is the supplied count, or floor(pi/4 * sqrt(2^n)) when   *)
(* it is omitted: 1, 1, 2, 3, 4 for n = 1..5.                                *)
C14_StrictAlternation ==
    (Constructed /\ runs >= 1) =>
        LET k == num_iterations
        IN  /\ run_arg # PyNone => k = run_arg.v
            /\ (run_arg = PyNone /\ num_qubits \in 1..5) => k = DefaultCountTable[num_qubits]
            /\ Len(steps) <= 2 * k + 1
            /\ \A j \in 1..Len(steps) : steps[j] = AlternationOf(k)[j]
            /\ pc = "oracle" => Len(steps) = 2 * iteration /\ iteration < k
            /\ pc = "diffuser" => Len(steps) = 2 * iteration + 1 /\ iteration < k
            /\ pc = "measure" => Len(steps) = 2 * k /\ iteration = k
            /\ pc = "idle" => Len(steps) = 2 * k + 1 /\ iteration = k

(* five qubits, count omitted: four pairs and then the measurement *)
C14_Witness ==
    /\ RunReturned
    /\ run_arg = PyNone
    /\ num_qubits = 5
    /\ steps = <<"oracle", "diffuser", "oracle", "diffuser",
                 "oracle", "diffuser", "oracle", "diffuser", "measure">>

(* C15: one oracle application calls the predicate exactly once for each    *)
(* index 0..N-1, and afterwards the amplitude of every index the predicate   *)
(* is true of is the negation of its value before, every other amplitude     *)
(* being the one before.                                                     *)
C15_OracleFlipsMarkedOnly ==
    [][OracleStep =>
        /\ Len(predicate_calls') = num_states
        /\ {predicate_calls'[j] : j \in 1..Len(predicate_calls')} = 0..(num_states - 1)
        /\ DOMAIN state_vector'.amp = DOMAIN state_vector.amp
        /\ state_vector'.exp = state_vector.exp
        /\ \A i \in DOMAIN state_vector.amp :
              IF i \in oracle_function.marked
              THEN /\ ZAdd(state_vector'.amp[i].re, state_vector.amp[i].re) = ZInt(0)
                   /\ ZAdd(state_vector'.amp[i].im, state_vector.amp[i].im) = ZInt(0)
              ELSE state_vector'.amp[i] = state_vector.amp[i]]_vars

(* the first oracle application on eight states with index 0 marked: eight   *)
(* calls of the predicate, amplitude 0 negated, amplitude 1 as it was        *)
C15_Witness ==
    /\ pc = "diffuser"
    /\ runs = 1
    /\ iteration = 0
    /\ BuiltWithFactory(0)
    /\ num_states = 8
    /\ predicate_calls = <<0, 1, 2, 3, 4, 5, 6, 7>>
    /\ state_vector.amp[0].re = ZInt(-1)
    /\ state_vector.amp[1].re = ZInt(1)

(* the sums of the real and of the imaginary parts of a vector's entries *)
ReSum(sv) == ZSumRange([i \in DOMAIN sv.amp |-> sv.amp[i].re], 0, VecLen(sv) - 1)
ImSum(sv) == ZSumRange([i \in DOMAIN sv.amp |-> sv.amp[i].im], 0, VecLen(sv) - 1)

(* the vector sv written at the scale 2^(sv.exp + Log2(N)): the same amplitudes *)
Rescaled(sv, N) ==
    [amp |-> [i \in DOMAIN sv.amp |-> CScale(N, sv.amp[i])], exp |-> sv.exp + Log2(N)]

(* C16: one diffuser application replaces every amplitude a_i by             *)
(* 2 * mean - a_i, mean being the arithmetic mean of the N amplitudes before *)
(* the step; the mean of the vector is the same after the step, and a second *)
(* application gives back the vector before the first.  The new vector is    *)
(* written at N times the scale of the old one, so that new_i + N * old_i is *)
(* twice the old sum, and the new sum N times the old sum.                   *)
C16_DiffuserReflectsAboutMean ==
    [][DiffuserStep =>
        LET old == state_vector
            new == state_vector'
            N == num_states
            oldRe == ReSum(old)
            oldIm == ImSum(old)
            twiceRe == ZMulSmall(oldRe, 2)
            twiceIm == ZMulSmall(oldIm, 2)
        IN  /\ DOMAIN new.amp = DOMAIN old.amp
            /\ new.exp = old.exp + Log2(N)
            /\ \A i \in DOMAIN old.amp :
                  /\ ZAdd(new.amp[i].re, ZMulSmall(old.amp[i].re, N)) = twiceRe
                  /\ ZAdd(new.amp[i].im, ZMulSmall(old.amp[i].im, N)) = twiceIm
            /\ ReSum(new) = ZMulSmall(oldRe, N)
            /\ ImSum(new) = ZMulSmall(oldIm, N)
            /\ Diffuser(new) = Rescaled(Rescaled(old, N), N)]_vars

(* the first diffuser application on eight states with index 2 marked: the   *)
(* amplitudes (1, 1, -1, 1, ...) / sqrt(8), of mean 3/4, became              *)
(* (1/2, 1/2, 5/2, 1/2, ...) / sqrt(8)                                       *)
C16_Witness ==
    /\ pc = "oracle"
    /\ runs = 1
    /\ iteration = 1
    /\ num_states = 8
    /\ BuiltWithFactory(2)
    /\ QEqFrac(state_vector.amp[2].re, state_vector.exp, 5, 2)
    /\ QEqFrac(state_vector.amp[0].re, state_vector.exp, 1, 2)

(* C17: with a predicate that marks no index the state vector is the uniform *)
(* superposition after any number of iterations; with a predicate that marks *)
(* every index every probability is 1/N after any number of iterations; in   *)
(* both cases run_algorithm returns index 0.                                 *)
C17_DegeneratePredicates ==
    /\ (Constructed /\ MarkedInSpace = {}) =>
          /\ VecEq(state_vector, InitialState(num_states))
          /\ RunReturned => measured = 0
    /\ (Constructed /\ MarkedInSpace = 0..(num_states - 1)) =>
          /\ \A i \in 0..(num_states - 1) :
                ProbIs(GetProbabilities(state_vector), i, 1, num_states)
          /\ RunReturned => measured = 0

(* a run of two pairs under a predicate marking nothing left the uniform     *)
(* vector and returned 0                                                     *)
C17_Witness ==
    /\ RunReturned
    /\ num_states = 4
    /\ MarkedInSpace = {}
    /\ pairs = 2
    /\ VecEq(state_vector, InitialState(4))
    /\ measured = 0

(* a run of one pair under a predicate marking all four indices left every   *)
(* amplitude negated, every probability 1/4, and returned 0                  *)
C17_WitnessAllMarked ==
    /\ RunReturned
    /\ num_states = 4
    /\ MarkedInSpace = 0..3
    /\ pairs = 1
    /\ ZLess(state_vector.amp[3].re, ZInt(0))
    /\ ProbIs(GetProbabilities(state_vector), 3, 1, 4)
    /\ measured = 0

(* C18: successive runs on one simulator accumulate: when run_algorithm(b)   *)
(* returns on a simulator whose earlier calls made a pairs in all, the state *)
(* vector is the one a single run_algorithm(a + b) leaves on a fresh         *)
(* simulator of the same n and predicate, and the index returned is the one  *)
(* that single run returns.                                                  *)
C18_RunsAccumulate ==
    (RunReturned /\ runs = 2) =>
        LET b == num_iterations
            a == pairs - b
            single == AfterPairs(a + b)
        IN  /\ a >= 0
            /\ sv_before = AfterPairs(a)
            /\ state_vector = single
            /\ measured = Argmax(GetProbabilities(single))

(* two runs of one iteration each on eight states with index 2 marked left   *)
(* what one run of two iterations leaves: probability 121/128 on index 2     *)
C18_Witness ==
    /\ RunReturned
    /\ runs = 2
    /\ num_iterations = 1
    /\ pairs = 2
    /\ num_states = 8
    /\ BuiltWithFactory(2)
    /\ ProbIs(GetProbabilities(state_vector), 2, 121, 128)
    /\ measured = 2

(* C19: with a single marked index, in every state after construction and   *)
(* after each oracle or diffuser step, the N-1 unmarked amplitudes are equal *)
(* to one another and every amplitude has imaginary part 0.                  *)
C19_UnmarkedAmplitudesEqual ==
    (Constructed /\ Cardinality(MarkedInSpace) = 1) =>
        LET unmarked == DOMAIN state_vector.amp \ MarkedInSpace
            first == CHOOSE i \in unmarked : TRUE
        IN  /\ Cardinality(unmarked) = num_states - 1
            /\ \A i \in unmarked : state_vector.amp[i] = state_vector.amp[first]
            /\ \A i \in DOMAIN state_vector.amp : state_vector.amp[i].im = ZInt(0)

(* after the second oracle step on sixteen states with index 5 marked: the   *)
(* marked amplitude negative, the unmarked ones equal and positive           *)
C19_Witness ==
    /\ pc = "diffuser"
    /\ iteration = 1
    /\ num_states = 16
    /\ BuiltWithFactory(5)
    /\ ZLess(state_vector.amp[5].re, ZInt(0))
    /\ ZLess(ZInt(0), state_vector.amp[0].re)
    /\ state_vector.amp[0] = state_vector.amp[15]

(* C20: for n = 1 with exactly one of the two indices marked, both           *)
(* probabilities are 1/2 after every number of iterations, and run_algorithm *)
(* returns index 0 whichever index is marked and whatever the count: it does *)
(* not find marked index 1.                                                  *)
C20_OneQubitNeverFindsOne ==
    (Constructed /\ num_qubits = 1 /\ Cardinality(MarkedInSpace) = 1) =>
        /\ ProbIs(GetProbabilities(state_vector), 0, 1, 2)
        /\ ProbIs(GetProbabilities(state_vector), 1, 1, 2)
        /\ RunReturned => measured = 0

(* one qubit, index 1 marked, count omitted: one pair was run, the           *)
(* probability of index 1 is 1/2 and index 0 was returned                    *)
C20_Witness ==
    /\ RunReturned
    /\ num_qubits = 1
    /\ BuiltWithFactory(1)
    /\ run_arg = PyNone
    /\ pairs = 1
    /\ ProbIs(GetProbabilities(state_vector), 1, 1, 2)
    /\ measured = 0

====
